---- MODULE Spec2Model ----
(***************************************************************************)
(* Model of the Yandex SpeechKit streaming session of                      *)
(* livekit/plugins/yandex/stt.py (class SpeechStream) with its helpers of  *)
(* _utils.py and yandex_api.py.  One session is modelled: the caller       *)
(* pushes frames, flushes and closes; the main task opens the connection   *)
(* and runs the streaming call under the retry wrapper; the request        *)
(* iterator is pulled by the gRPC call while the call is active; the       *)
(* backend sends responses, ends the stream or fails it.                   *)
(***************************************************************************)
EXTENDS Integers, Sequences, FiniteSets, TLC

\* ------------------------------------------------------------------ bounds
MaxFrames == 3
MaxResponses == 2
MaxAlts == 2
MaxAcloseCalls == 2
MaxBuffer == 2

\* ------------------------------------------------- program constants
ExpectedRate == 16000
StopAfterAttempt == 3

AllowedRates == {8000, 16000, 48000}
FrameRates == {8000, 16000, 48000}
Whitespace == {" ", "\t", "\n"}

\* ------------------------------------------------------ input domains
\* int16 sample buffers a frame can carry (empty, or one sample)
DataChoices == {<< >>, <<-2>>}
\* texts of an alternative, as sequences of characters
Texts == {<< >>, <<" ">>, <<"h">>}
StatusCodes == {1, 2}

NoError == [class |-> "none", retryable |-> FALSE]

\* ------------------------------------------------------------ helpers
RECURSIVE SeqsUpTo(_, _)
SeqsUpTo(S, n) ==
    IF n = 0 THEN {<< >>}
    ELSE LET shorter == SeqsUpTo(S, n - 1)
         IN shorter \cup {Append(s, x) : s \in {t \in shorter : Len(t) = n - 1}, x \in S}

AltLists == SeqsUpTo(Texts, MaxAlts)

\* interim alternatives are not filtered by their text: one text is enough
PartialAltLists == SeqsUpTo({<<"h">>}, MaxAlts)

\* the backend's StreamingResponse: one populated variant of the oneof Event
Responses ==
    {[variant |-> "partial", alts |-> a, code |-> 0] : a \in PartialAltLists}
    \cup {[variant |-> "final", alts |-> a, code |-> 0] : a \in AltLists}
    \cup {[variant |-> "final_refinement", alts |-> <<<<"h">>>>, code |-> 0]}
    \cup {[variant |-> "eou_update", alts |-> << >>, code |-> 0]}
    \cup {[variant |-> "status_code", alts |-> << >>, code |-> c] : c \in StatusCodes}
    \cup {[variant |-> "none", alts |-> << >>, code |-> 0]}
    \cup {[variant |-> "classifier_update", alts |-> << >>, code |-> 0]}

Frames == [sample_rate : FrameRates, data : DataChoices]

\* what the streaming call can raise into _start_streaming_session
GrpcFailures ==
    {[type |-> "RpcError", code |-> c, rst |-> FALSE] :
        c \in {"UNAUTHENTICATED", "UNAVAILABLE", "DEADLINE_EXCEEDED",
               "RESOURCE_EXHAUSTED", "INVALID_ARGUMENT", "INTERNAL", "UNKNOWN"}}
    \cup {[type |-> "RpcError", code |-> "INTERNAL", rst |-> TRUE]}
    \cup {[type |-> "Exception", code |-> "none", rst |-> FALSE]}

\* responses that carry one transcript: a partial or a final with one alternative
TranscriptResponses ==
    {r \in Responses : r.variant \in {"partial", "final"} /\ Len(r.alts) = 1}

\* the failure a call ends with where the kind of failure does not matter
OutFailures == {e \in GrpcFailures : e.code = "UNAVAILABLE"}

\* frames of the rate the converter accepts, with audio data
AcceptedFrames == {f \in Frames : f.sample_rate = ExpectedRate /\ f.data # << >>}

VARIABLES
    sample_rate,      \* _opts.sample_rate of the session
    input_ch,         \* _input_ch: frames and flush sentinels not yet received
    input_closed,     \* _input_ch closed
    pushed,           \* number of frames pushed so far (frame ids are 1..pushed)
    closed,           \* _closed
    session_started,  \* _session_started
    grpc_channel,     \* _grpc_channel: "none", "open", "closed"
    stream_call,      \* _stream_call: "none", "active", "ended", "failed", "cancelled"
    attempts,         \* attempt number of the retry wrapper
    mainPc,           \* position of _main_task
    error,            \* the error that left _main_task
    requests,         \* per streaming call, the messages its request iterator yielded
    iterPc,           \* position of the current request iterator
    taken,            \* frames the request iterators received from _input_ch
    respLog,          \* responses received from the backend, in order
    event_ch,         \* _event_ch: events sent, in order
    failures,         \* what each failed streaming call raised, in order
    aclose_calls,     \* number of calls of aclose() that have returned
    channel_closes,   \* number of times _grpc_channel.close() was invoked
    half_closed_at,   \* responses received when the iterator met the flush sentinel (-1: not met)
    stt_obj,          \* the STT object: constructor arguments, error raised or _opts and _credentials
    stream_opts,      \* the options of the stream last created and the language asked for
    process_errors,   \* number of exceptions _process_response caught
    recPc,            \* position of _recognize_impl ("none": the stream is the caller's own)
    rec_next,         \* index in _event_ch of the next event _recognize_impl reads
    rec_result        \* what _recognize_impl returned or raised

vars == <<sample_rate, input_ch, input_closed, pushed, closed, session_started,
          grpc_channel, stream_call, attempts, mainPc, error, requests, iterPc,
          taken, respLog, event_ch, failures, aclose_calls, channel_closes,
          half_closed_at, stt_obj, stream_opts, process_errors, recPc, rec_next, rec_result>>

cfgVars == <<stt_obj, stream_opts>>
callerVars == <<input_ch, input_closed, pushed>>
mainVars == <<grpc_channel, stream_call, attempts, mainPc, error, failures>>
iterVars == <<session_started, requests, iterPc, taken, half_closed_at>>
closeVars == <<aclose_calls, channel_closes>>
respVars == <<respLog, event_ch, process_errors>>
recVars == <<recPc, rec_next, rec_result>>

\* --------------------------------------------------------- _utils.py
\* two's complement little-endian bytes of int16 samples (ndarray.tobytes)
RECURSIVE ToBytes(_)
ToBytes(data) ==
    IF data = << >> THEN << >>
    ELSE LET u == (Head(data) + 65536) % 65536
         IN <<u % 256, u \div 256>> \o ToBytes(Tail(data))

IsFlushSentinel(item) == item.kind = "flush"

\* convert_audio_frame_to_pcm: "raise" stands for NotImplementedError
convert_audio_frame_to_pcm(frame) ==
    IF frame.sample_rate # ExpectedRate
    THEN [raised |-> TRUE, bytes |-> << >>]
    ELSE [raised |-> FALSE, bytes |-> ToBytes(frame.data)]

\* ------------------------------------------------------ yandex_api.py
create_session_request(rate) ==
    [kind |-> "session_options", sample_rate |-> rate, data |-> << >>, frame |-> 0]

create_audio_chunk(bytes, id) ==
    [kind |-> "chunk", sample_rate |-> 0, data |-> bytes, frame |-> id]

parse_streaming_response_nocode(r) ==
    LET base == [event_type |-> r.variant, alternatives |-> << >>,
                 is_final |-> FALSE, status_code |-> 0]
    IN  IF r.variant \in {"partial", "final", "final_refinement"} /\ Len(r.alts) > 0
        THEN [base EXCEPT !.alternatives = r.alts, !.is_final = r.variant # "partial"]
        ELSE base

parse_streaming_response(r) ==
    LET base == [event_type |-> r.variant, alternatives |-> << >>,
                 is_final |-> FALSE, status_code |-> 0]
    IN  IF r.variant = "partial" /\ Len(r.alts) > 0
        THEN [base EXCEPT !.alternatives = r.alts]
        ELSE IF r.variant = "final"
        THEN [base EXCEPT !.alternatives = r.alts, !.is_final = TRUE]
        ELSE IF r.variant = "final_refinement"
        THEN [base EXCEPT !.alternatives = r.alts, !.is_final = TRUE]
        ELSE IF r.variant = "status_code"
        THEN [base EXCEPT !.status_code = r.code]
        ELSE base

\* ------------------------------------------------------------- stt.py
\* str.strip() on a text
RECURSIVE LStrip(_)
LStrip(t) == IF t # << >> /\ Head(t) \in Whitespace THEN LStrip(Tail(t)) ELSE t

RECURSIVE RStrip(_)
RStrip(t) ==
    IF t # << >> /\ t[Len(t)] \in Whitespace THEN RStrip(SubSeq(t, 1, Len(t) - 1)) ELSE t

Strip(t) == RStrip(LStrip(t))

SpeechEvent(type, alts, src) == [type |-> type, alternatives |-> alts, src |-> src]

InterimEvents_none(alts, src) == << >>

RECURSIVE InterimEvents(_, _)
InterimEvents(alts, src) ==
    IF alts = << >> THEN << >>
    ELSE <<SpeechEvent("INTERIM_TRANSCRIPT", <<Head(alts)>>, src)>>
         \o InterimEvents(Tail(alts), src)

RECURSIVE FinalEvents_nofilter(_, _)
FinalEvents_nofilter(alts, src) ==
    IF alts = << >> THEN << >>
    ELSE <<SpeechEvent("FINAL_TRANSCRIPT", <<Head(alts)>>, src)>>
         \o FinalEvents_nofilter(Tail(alts), src)

RECURSIVE FinalEvents(_, _)
FinalEvents(alts, src) ==
    IF alts = << >> THEN << >>
    ELSE (IF Strip(Head(alts)) = << >> THEN << >>
          ELSE <<SpeechEvent("FINAL_TRANSCRIPT", <<Head(alts)>>, src)>>)
         \o FinalEvents(Tail(alts), src)

ResponseEvents_by_is_final(r, src) ==
    LET parsed == parse_streaming_response(r)
    IN  IF parsed.event_type = "partial" /\ parsed.alternatives # << >>
        THEN InterimEvents(parsed.alternatives, src)
        ELSE IF parsed.is_final /\ parsed.alternatives # << >>
        THEN FinalEvents(parsed.alternatives, src)
        ELSE << >>

ResponseEvents_else_event(r, src) ==
    LET parsed == parse_streaming_response(r)
    IN  IF parsed.event_type = "partial" /\ parsed.alternatives # << >>
        THEN InterimEvents(parsed.alternatives, src)
        ELSE IF parsed.event_type = "final" /\ parsed.alternatives # << >>
        THEN FinalEvents(parsed.alternatives, src)
        ELSE <<SpeechEvent("END_OF_SPEECH", << >>, src)>>

\* the events _process_response sends for one response, in order
ResponseEvents(r, src) ==
    LET parsed == parse_streaming_response(r)
    IN  IF parsed.event_type = "partial" /\ parsed.alternatives # << >>
        THEN InterimEvents(parsed.alternatives, src)
        ELSE IF parsed.event_type = "final" /\ parsed.alternatives # << >>
        THEN FinalEvents(parsed.alternatives, src)
        ELSE IF parsed.event_type = "end_of_utterance"
        THEN <<SpeechEvent("END_OF_SPEECH", << >>, src)>>
        ELSE << >>

process_response_prepend(ch, r, src) == ResponseEvents(r, src) \o ch

\* _process_response: events are appended to _event_ch
process_response(ch, r, src) == ch \o ResponseEvents(r, src)

\* _handle_grpc_error: the classified error it raises
handle_grpc_error_norst(e) ==
    IF e.code = "UNAUTHENTICATED" THEN [class |-> "YandexAuthenticationError", retryable |-> FALSE]
    ELSE IF e.code = "UNAVAILABLE" THEN [class |-> "YandexNetworkError", retryable |-> TRUE]
    ELSE IF e.code = "DEADLINE_EXCEEDED" THEN [class |-> "YandexTimeoutError", retryable |-> TRUE]
    ELSE IF e.code = "RESOURCE_EXHAUSTED" THEN [class |-> "YandexAPIError", retryable |-> TRUE]
    ELSE IF e.code = "INVALID_ARGUMENT" THEN [class |-> "YandexAPIError", retryable |-> FALSE]
    ELSE [class |-> "YandexAPIError", retryable |-> TRUE]

handle_grpc_error(e) ==
    IF e.code = "UNAUTHENTICATED" THEN [class |-> "YandexAuthenticationError", retryable |-> FALSE]
    ELSE IF e.code = "UNAVAILABLE" THEN [class |-> "YandexNetworkError", retryable |-> TRUE]
    ELSE IF e.code = "DEADLINE_EXCEEDED" THEN [class |-> "YandexTimeoutError", retryable |-> TRUE]
    ELSE IF e.code = "RESOURCE_EXHAUSTED" THEN [class |-> "YandexAPIError", retryable |-> TRUE]
    ELSE IF e.code = "INVALID_ARGUMENT" THEN [class |-> "YandexAPIError", retryable |-> FALSE]
    ELSE IF e.code = "INTERNAL" /\ e.rst THEN [class |-> "YandexNetworkError", retryable |-> TRUE]
    ELSE [class |-> "YandexAPIError", retryable |-> TRUE]

RetryPredicate_any(e) == TRUE

\* retry_if_exception_type((YandexNetworkError, YandexTimeoutError)) on the
\* exception that leaves _start_streaming_session
RetryPredicate(e) == e.type \in {"YandexNetworkError", "YandexTimeoutError"}

\* _main_task's handlers: the error that leaves the task for exception e
MainTaskError(e) ==
    IF e.type = "RpcError" THEN handle_grpc_error(e)
    ELSE [class |-> "YandexAPIError", retryable |-> TRUE]

\* ----------------------------------------------------- STT and its options
\* Python's None and the NOT_GIVEN marker, as strings among strings
None == "None"
NOT_GIVEN == "NOT_GIVEN"

\* truth value of an optional string: None and "" are false
Truthy(v) == v \notin {None, ""}

Languages == {"ru-RU", "en-US"}
ModelArgs == {"general", "general:rc"}
RateArgs == AllowedRates \cup {44100}
KeyArgs == {None, "", "key"}
FolderArgs == {None, "", "folder"}

\* what STT(...) is called with, and the environment it is called in
STTArgs ==
    [model : ModelArgs, language : Languages, detect_language : BOOLEAN,
     sample_rate : RateArgs, api_key : KeyArgs, folder_id : FolderArgs,
     env_api_key : {None, "envkey"}, env_folder_id : {None, "envfolder"}]

NoOpts == [model |-> None, language |-> None, detect_language |-> FALSE,
           sample_rate |-> 0, folder_id |-> None]
NoCredentials == [api_key |-> None, folder_id |-> None]

\* the credentials STT.__init__ works with: the arguments when one of them
\* is given, the environment (YandexCredentials.from_env) otherwise
Credentials(a) ==
    IF Truthy(a.api_key) \/ Truthy(a.folder_id)
    THEN [api_key |-> a.api_key, folder_id |-> a.folder_id]
    ELSE [api_key |-> a.env_api_key, folder_id |-> a.env_folder_id]

STT_init_unchecked(a) ==
    [args |-> a, raised |-> "none",
     opts |-> [model |-> a.model,
               language |-> IF ~a.detect_language THEN a.language ELSE None,
               detect_language |-> a.detect_language, sample_rate |-> a.sample_rate,
               folder_id |-> Credentials(a).folder_id],
     credentials |-> Credentials(a)]

\* STT.__init__: the error it raises, or the options and credentials it keeps
STT_init(a) ==
    LET Raised(c) == [args |-> a, raised |-> c, opts |-> NoOpts, credentials |-> NoCredentials]
    IN  IF a.sample_rate \notin {8000, 16000, 48000} THEN Raised("YandexAudioFormatError")
        ELSE IF ~Truthy(Credentials(a).folder_id) THEN Raised("YandexConfigurationError")
        ELSE IF ~Truthy(Credentials(a).api_key) THEN Raised("YandexAuthenticationError")
        ELSE [args |-> a, raised |-> "none",
              opts |-> [model |-> a.model,
                        language |-> IF ~a.detect_language THEN a.language ELSE None,
                        detect_language |-> a.detect_language,
                        sample_rate |-> a.sample_rate,
                        folder_id |-> Credentials(a).folder_id],
              credentials |-> Credentials(a)]

sanitize_options_keep_detect(opts, language) ==
    IF language # NOT_GIVEN THEN [opts EXCEPT !.language = language] ELSE opts

\* STT._sanitize_options: a copy of _opts with the language asked for
sanitize_options(opts, language) ==
    LET config == IF language # NOT_GIVEN
                  THEN [opts EXCEPT !.language = language, !.detect_language = FALSE]
                  ELSE opts
    IN  IF config.detect_language THEN [config EXCEPT !.language = None] ELSE config

\* create_streaming_options as _start_streaming_session calls it: the raw
\* audio format at the session's rate and, for a language without detection,
\* a whitelist of that language; the model argument is not used
create_streaming_options(opts) ==
    [sample_rate_hertz |-> opts.sample_rate,
     language_restriction |-> IF Truthy(opts.language) /\ ~opts.detect_language
                              THEN <<opts.language>> ELSE << >>]

NoArgs ==
    [model |-> None, language |-> None, detect_language |-> FALSE, sample_rate |-> 0,
     api_key |-> None, folder_id |-> None, env_api_key |-> None, env_folder_id |-> None]

\* no STT was constructed yet
NoSTT == [args |-> NoArgs, raised |-> "unconstructed", opts |-> NoOpts,
          credentials |-> NoCredentials]
NoStream == [language |-> NOT_GIVEN, opts |-> NoOpts]

\* the arguments of the STT a session of the given rate comes from
StreamArgs(rate) ==
    [model |-> "general", language |-> "ru-RU", detect_language |-> FALSE,
     sample_rate |-> rate, api_key |-> "key", folder_id |-> "folder",
     env_api_key |-> None, env_folder_id |-> None]

\* STT(...): the constructor is called
STT_construct(a) ==
    /\ stt_obj.raised = "unconstructed"
    /\ stt_obj' = STT_init(a)
    /\ UNCHANGED <<stream_opts, recVars, sample_rate, callerVars, closed, mainVars, iterVars, respVars,
                   closeVars>>

\* STT.stream(language=...): a stream is created with the sanitized options
stream(language) ==
    /\ stt_obj.raised = "none"
    /\ stream_opts' = [language |-> language,
                       opts |-> sanitize_options(stt_obj.opts, language)]
    /\ stream_opts' # stream_opts
    /\ sample_rate' = stream_opts'.opts.sample_rate
    /\ UNCHANGED <<stt_obj, recVars, callerVars, closed, mainVars, iterVars, respVars, closeVars>>

\* _recognize_impl has neither returned nor raised
NoResult == [kind |-> "none", type |-> "none", text |-> << >>, idx |-> 0, cause |-> "none"]

\* a stream as its construction leaves it
StreamInit ==
    /\ input_ch = << >>
    /\ input_closed = FALSE
    /\ pushed = 0
    /\ closed = FALSE
    /\ session_started = FALSE
    /\ grpc_channel = "none"
    /\ stream_call = "none"
    /\ attempts = 0
    /\ mainPc = "connect"
    /\ error = NoError
    /\ requests = << >>
    /\ iterPc = "none"
    /\ taken = << >>
    /\ respLog = << >>
    /\ event_ch = << >>
    /\ failures = << >>
    /\ aclose_calls = 0
    /\ channel_closes = 0
    /\ half_closed_at = -1
    /\ process_errors = 0
    /\ recPc = "none"
    /\ rec_next = 1
    /\ rec_result = NoResult

\* before any STT is constructed
InitConfig ==
    /\ sample_rate = ExpectedRate
    /\ stt_obj = NoSTT
    /\ stream_opts = NoStream
    /\ StreamInit

NextConfig ==
    \/ \E a \in STTArgs : STT_construct(a)
    \/ \E l \in Languages \cup {None, NOT_GIVEN} : stream(l)

SpecConfig == InitConfig /\ [][NextConfig]_vars

\* a stream obtained from an STT constructed with credentials and an allowed
\* sample rate
Init ==
    /\ sample_rate \in AllowedRates
    /\ stt_obj = STT_init(StreamArgs(sample_rate))
    /\ stream_opts = [language |-> NOT_GIVEN,
                      opts |-> sanitize_options(stt_obj.opts, NOT_GIVEN)]
    /\ StreamInit

\* ------------------------------------------------------- the caller
FlushItem == [kind |-> "flush", id |-> 0, sample_rate |-> 0, data |-> << >>]

FrameItem(f, id) == [kind |-> "frame", id |-> id, sample_rate |-> f.sample_rate, data |-> f.data]

\* stream.push_frame(frame): the frame is queued on _input_ch as it is
push_frame(f) ==
    /\ ~input_closed
    /\ pushed < MaxFrames
    /\ pushed' = pushed + 1
    /\ input_ch' = Append(input_ch, FrameItem(f, pushed + 1))
    /\ UNCHANGED <<cfgVars, recVars, sample_rate, input_closed, closed, mainVars, iterVars, respVars, closeVars>>

\* stream.flush(): a flush sentinel is queued behind the frames pushed so far
\* (its id records how many frames were pushed before it)
flush ==
    /\ ~input_closed
    /\ \A i \in 1..Len(input_ch) : ~IsFlushSentinel(input_ch[i])
    /\ \A i \in 1..Len(taken) : ~IsFlushSentinel(taken[i])
    /\ input_ch' = Append(input_ch, [FlushItem EXCEPT !.id = pushed])
    /\ UNCHANGED <<cfgVars, recVars, sample_rate, input_closed, pushed, closed, mainVars, iterVars, respVars,
                   closeVars>>

aclose_unguarded ==
    /\ aclose_calls < MaxAcloseCalls
    /\ aclose_calls' = aclose_calls + 1
    /\ closed' = TRUE
    /\ stream_call' = IF stream_call = "active" THEN "cancelled" ELSE stream_call
    /\ grpc_channel' = IF grpc_channel # "none" THEN "closed" ELSE grpc_channel
    /\ channel_closes' = IF grpc_channel # "none" THEN channel_closes + 1 ELSE channel_closes
    /\ input_closed' = TRUE
    /\ mainPc' = IF mainPc \in {"done", "failed"} THEN mainPc ELSE "cancelled"
    /\ UNCHANGED <<cfgVars, recVars, sample_rate, input_ch, pushed, attempts, error, failures, iterVars, respVars>>

aclose_keeps_task ==
    /\ aclose_calls < MaxAcloseCalls
    /\ aclose_calls' = aclose_calls + 1
    /\ IF closed
       THEN UNCHANGED <<cfgVars, recVars, sample_rate, callerVars, closed, mainVars, iterVars, respVars,
                        channel_closes>>
       ELSE /\ closed' = TRUE
            /\ stream_call' = IF stream_call = "active" THEN "cancelled" ELSE stream_call
            /\ grpc_channel' = IF grpc_channel # "none" THEN "closed" ELSE grpc_channel
            /\ channel_closes' = IF grpc_channel # "none" THEN channel_closes + 1
                                  ELSE channel_closes
            /\ input_closed' = TRUE
            /\ mainPc' = IF mainPc = "receiving" THEN "cancelled" ELSE mainPc
            /\ UNCHANGED <<cfgVars, recVars, sample_rate, input_ch, pushed, attempts, error, failures,
                           iterVars, respVars>>

aclose_nocancel ==
    /\ aclose_calls < MaxAcloseCalls
    /\ aclose_calls' = aclose_calls + 1
    /\ IF closed
       THEN UNCHANGED <<cfgVars, recVars, sample_rate, callerVars, closed, mainVars, iterVars, respVars,
                        channel_closes>>
       ELSE /\ closed' = TRUE
            /\ grpc_channel' = IF grpc_channel # "none" THEN "closed" ELSE grpc_channel
            /\ channel_closes' = IF grpc_channel # "none" THEN channel_closes + 1
                                  ELSE channel_closes
            /\ input_closed' = TRUE
            /\ UNCHANGED <<cfgVars, recVars, sample_rate, input_ch, pushed, stream_call, mainPc, attempts, error,
                           failures, iterVars, respVars>>

\* SpeechStream.aclose(): a call on a closed stream returns at once; otherwise
\* the stream is marked closed, the call is cancelled, the channel is closed
\* and the inherited aclose() closes the input channel and cancels the task
aclose ==
    /\ aclose_calls < MaxAcloseCalls
    /\ aclose_calls' = aclose_calls + 1
    /\ IF closed
       THEN UNCHANGED <<cfgVars, recVars, sample_rate, callerVars, closed, mainVars, iterVars, respVars,
                        channel_closes>>
       ELSE /\ closed' = TRUE
            /\ stream_call' = IF stream_call = "active" THEN "cancelled" ELSE stream_call
            /\ grpc_channel' = IF grpc_channel # "none" THEN "closed" ELSE grpc_channel
            /\ channel_closes' = IF grpc_channel # "none" THEN channel_closes + 1
                                  ELSE channel_closes
            /\ input_closed' = TRUE
            /\ mainPc' = IF mainPc \in {"done", "failed"} THEN mainPc ELSE "cancelled"
            /\ UNCHANGED <<cfgVars, recVars, sample_rate, input_ch, pushed, attempts, error, failures, iterVars,
                           respVars>>

\* ------------------------------------------------------ the main task
\* _main_task up to the retry wrapper: _create_grpc_connection succeeds
create_grpc_connection ==
    /\ mainPc = "connect"
    /\ grpc_channel' = "open"
    /\ mainPc' = "attempt"
    /\ UNCHANGED <<cfgVars, recVars, sample_rate, callerVars, closed, stream_call, attempts, error, failures,
                   iterVars, respVars, closeVars>>

\* _create_grpc_connection raises YandexNetworkError, which _main_task's
\* "except Exception" turns into YandexAPIError
create_grpc_connection_fails ==
    /\ mainPc = "connect"
    /\ mainPc' = "failed"
    /\ error' = MainTaskError([type |-> "YandexNetworkError", code |-> "none", rst |-> FALSE])
    /\ UNCHANGED <<cfgVars, recVars, sample_rate, callerVars, closed, grpc_channel, stream_call, attempts,
                   failures, iterVars, respVars, closeVars>>

start_streaming_session_noconfig ==
    /\ mainPc = "attempt"
    /\ attempts' = attempts + 1
    /\ stream_call' = "active"
    /\ iterPc' = "top"
    /\ requests' = Append(requests, << >>)
    /\ mainPc' = "receiving"
    /\ UNCHANGED <<cfgVars, recVars, sample_rate, callerVars, closed, grpc_channel, error, failures,
                   session_started, taken, half_closed_at, respVars, closeVars>>

\* one attempt of _start_streaming_session_with_retry: _start_streaming_session
\* creates the request iterator and starts the RecognizeStreaming call
start_streaming_session ==
    /\ mainPc = "attempt"
    /\ attempts' = attempts + 1
    /\ stream_call' = "active"
    /\ iterPc' = "created"
    /\ requests' = Append(requests, << >>)
    /\ mainPc' = "receiving"
    /\ UNCHANGED <<cfgVars, recVars, sample_rate, callerVars, closed, grpc_channel, error, failures,
                   session_started, taken, half_closed_at, respVars, closeVars>>

receive_response_after_frame(r) ==
    /\ mainPc = "receiving"
    /\ stream_call = "active"
    /\ iterPc # "poll"
    /\ Len(respLog) < MaxResponses
    /\ respLog' = Append(respLog, r)
    /\ event_ch' = process_response(event_ch, r, Len(respLog) + 1)
    /\ process_errors' = process_errors
    /\ UNCHANGED <<cfgVars, recVars, sample_rate, callerVars, closed, mainVars, iterVars, closeVars>>

\* async for response in self._stream_call: await self._process_response(...)
receive_response(r) ==
    /\ mainPc = "receiving"
    /\ stream_call = "active"
    /\ Len(respLog) < MaxResponses
    /\ respLog' = Append(respLog, r)
    /\ event_ch' = process_response(event_ch, r, Len(respLog) + 1)
    /\ process_errors' = process_errors
    /\ UNCHANGED <<cfgVars, recVars, sample_rate, callerVars, closed, mainVars, iterVars, closeVars>>

receive_response_raises_propagates(r, k) ==
    /\ mainPc = "receiving"
    /\ stream_call = "active"
    /\ Len(respLog) < MaxResponses
    /\ k <= Len(ResponseEvents(r, Len(respLog) + 1))
    /\ respLog' = Append(respLog, r)
    /\ event_ch' = event_ch \o SubSeq(ResponseEvents(r, Len(respLog) + 1), 1, k)
    /\ process_errors' = process_errors + 1
    /\ stream_call' = "failed"
    /\ closed' = TRUE
    /\ mainPc' = "failed"
    /\ error' = MainTaskError([type |-> "Exception", code |-> "none", rst |-> FALSE])
    /\ UNCHANGED <<cfgVars, recVars, sample_rate, callerVars, grpc_channel, attempts, failures,
                   iterVars, closeVars>>

\* _process_response meets an exception after k events of the response were
\* sent (k = 0: while decoding, or at the first send): the except clause logs
\* it, and the response loop goes on
receive_response_raises(r, k) ==
    /\ mainPc = "receiving"
    /\ stream_call = "active"
    /\ Len(respLog) < MaxResponses
    /\ k <= Len(ResponseEvents(r, Len(respLog) + 1))
    /\ respLog' = Append(respLog, r)
    /\ event_ch' = event_ch \o SubSeq(ResponseEvents(r, Len(respLog) + 1), 1, k)
    /\ process_errors' = process_errors + 1
    /\ UNCHANGED <<cfgVars, recVars, sample_rate, callerVars, closed, mainVars, iterVars,
                   closeVars>>

\* the backend ends the response stream: the finally block marks the stream
\* closed and the main task returns
stream_ends ==
    /\ mainPc = "receiving"
    /\ stream_call = "active"
    /\ stream_call' = "ended"
    /\ closed' = TRUE
    /\ mainPc' = "done"
    /\ UNCHANGED <<cfgVars, recVars, sample_rate, callerVars, grpc_channel, attempts, error, failures, iterVars,
                   respVars, closeVars>>

\* the call raises e: the finally block marks the stream closed, the retry
\* wrapper decides on the exception as raised, and what it lets through is
\* classified by _main_task
stream_fails(e) ==
    /\ mainPc = "receiving"
    /\ stream_call = "active"
    /\ stream_call' = "failed"
    /\ closed' = TRUE
    /\ failures' = Append(failures, e)
    /\ IF RetryPredicate(e)
       THEN IF attempts < StopAfterAttempt
            THEN mainPc' = "attempt" /\ error' = error
            ELSE mainPc' = "failed"
                 /\ error' = MainTaskError([type |-> "RetryError", code |-> "none", rst |-> FALSE])
       ELSE mainPc' = "failed" /\ error' = MainTaskError(e)
    /\ UNCHANGED <<cfgVars, recVars, sample_rate, callerVars, grpc_channel, attempts, iterVars, respVars, closeVars>>

\* ------------------------------------------------ the request iterator
Yield(msg) == [requests EXCEPT ![Len(requests)] = Append(@, msg)]

\* the transport drives the request iterator of a call until the call is
\* cancelled; once the call is over (ended or failed) a message the iterator
\* yields can no longer be written and the transport stops iterating
IterDriven == stream_call \in {"active", "ended", "failed"}

CallOver == stream_call \in {"ended", "failed"}

\* yield create_session_request(streaming_opts)
iter_yield_session_request ==
    /\ IterDriven
    /\ iterPc = "created"
    /\ requests' = Yield(create_session_request(sample_rate))
    /\ iterPc' = IF CallOver THEN "abandoned" ELSE "config"
    /\ UNCHANGED <<cfgVars, recVars, sample_rate, callerVars, closed, mainVars, session_started, taken,
                   half_closed_at, respVars, closeVars>>

\* the iterator is resumed after the first yield
iter_session_started ==
    /\ IterDriven
    /\ iterPc = "config"
    /\ session_started' = TRUE
    /\ iterPc' = "top"
    /\ UNCHANGED <<cfgVars, recVars, sample_rate, callerVars, closed, mainVars, requests, taken,
                   half_closed_at, respVars, closeVars>>

iter_loop_test_noflag ==
    /\ IterDriven
    /\ iterPc = "top"
    /\ iterPc' = "poll"
    /\ UNCHANGED <<cfgVars, recVars, sample_rate, callerVars, closed, mainVars, session_started, requests,
                   taken, half_closed_at, respVars, closeVars>>

\* while not self._closed
iter_loop_test ==
    /\ IterDriven
    /\ iterPc = "top"
    /\ iterPc' = IF closed THEN "finished" ELSE "poll"
    /\ UNCHANGED <<cfgVars, recVars, sample_rate, callerVars, closed, mainVars, session_started, requests,
                   taken, half_closed_at, respVars, closeVars>>

iter_recv_empty_notimeout ==
    /\ IterDriven
    /\ iterPc = "poll"
    /\ input_ch = << >>
    /\ input_closed
    /\ iterPc' = "finished"
    /\ UNCHANGED <<cfgVars, recVars, sample_rate, callerVars, closed, mainVars, session_started, requests,
                   taken, half_closed_at, respVars, closeVars>>

\* asyncio.wait_for(self._input_ch.recv(), timeout=0.1) with nothing queued:
\* the wait times out and the loop continues, or, on a closed channel, recv()
\* raises ChanClosed and the loop is left
iter_recv_empty ==
    /\ IterDriven
    /\ iterPc = "poll"
    /\ input_ch = << >>
    /\ iterPc' = IF input_closed THEN "finished" ELSE "top"
    /\ UNCHANGED <<cfgVars, recVars, sample_rate, callerVars, closed, mainVars, session_started, requests,
                   taken, half_closed_at, respVars, closeVars>>

\* self._input_ch.recv(): the oldest queued item, and what stays queued
Recv_flush_first(ch) ==
    IF \E i \in DOMAIN ch : IsFlushSentinel(ch[i])
    THEN [item |-> ch[CHOOSE i \in DOMAIN ch : IsFlushSentinel(ch[i])],
          rest |-> SelectSeq(ch, LAMBDA x : ~IsFlushSentinel(x))]
    ELSE [item |-> Head(ch), rest |-> Tail(ch)]

Recv_peek(ch) == [item |-> Head(ch), rest |-> ch]

Recv_lifo(ch) == [item |-> ch[Len(ch)], rest |-> Tail(ch)]

Recv(ch) == [item |-> Head(ch), rest |-> Tail(ch)]

\* where the iterator goes after a frame: "continue" after a failed conversion
\* as after a converted frame
AfterFrame_first_fatal(item) ==
    IF convert_audio_frame_to_pcm(item).raised /\ taken = << >> THEN "finished" ELSE "top"

AfterFrame_break(item) ==
    IF convert_audio_frame_to_pcm(item).raised THEN "finished" ELSE "top"

AfterFrame(item) == "top"

AfterFlush_continue == "top"

\* where the iterator goes after the flush sentinel: "break", the iterator ends
AfterFlush == "finished"

FrameRequests_noguard(item) ==
    LET pcm == convert_audio_frame_to_pcm(item)
    IN  IF pcm.raised THEN << >> ELSE <<create_audio_chunk(pcm.bytes, item.id)>>

\* what one received item makes the iterator yield
FrameRequests(item) ==
    LET pcm == convert_audio_frame_to_pcm(item)
    IN  IF pcm.raised THEN << >>
        ELSE IF pcm.bytes # << >> THEN <<create_audio_chunk(pcm.bytes, item.id)>>
        ELSE << >>

\* recv() returns an item: a flush sentinel ends the iterator, a frame is
\* converted and yielded, a frame that fails to convert is skipped
iter_recv ==
    /\ IterDriven
    /\ iterPc = "poll"
    /\ input_ch # << >>
    /\ LET item == Recv(input_ch).item
       IN  /\ input_ch' = Recv(input_ch).rest
           /\ taken' = Append(taken, item)
           /\ IF IsFlushSentinel(item)
              THEN /\ iterPc' = AfterFlush
                   /\ requests' = requests
                   /\ half_closed_at' = Len(respLog)
              ELSE /\ iterPc' = IF CallOver /\ FrameRequests(item) # << >>
                                 THEN "abandoned" ELSE AfterFrame(item)
                   /\ requests' = [requests EXCEPT ![Len(requests)] = @ \o FrameRequests(item)]
                   /\ half_closed_at' = half_closed_at
    /\ UNCHANGED <<cfgVars, recVars, sample_rate, input_closed, pushed, closed, mainVars, session_started, respVars,
                   closeVars>>

\* ------------------------------------------------- batch recognition
\* the output queue is closed: the stream's task has ended
EventChClosed == mainPc \in {"done", "failed", "cancelled"}

\* the frames of an audio buffer carry data
BufferFrames == {f \in Frames : f.data # << >>}

\* the audio buffer _recognize_impl is called with: a list of frames
Buffers == SeqsUpTo(BufferFrames, MaxBuffer)

RECURSIVE CombinedData(_)
CombinedData(buf) == IF buf = << >> THEN << >> ELSE Head(buf).data \o CombinedData(Tail(buf))

\* rtc.combine_audio_frames(buffer): one frame with the data of all, or
\* ValueError for no frame and for frames of different sample rates
combine_audio_frames(buf) ==
    IF buf = << >> \/ \E i, j \in DOMAIN buf : buf[i].sample_rate # buf[j].sample_rate
    THEN [raised |-> TRUE, frame |-> [sample_rate |-> 0, data |-> << >>]]
    ELSE [raised |-> FALSE,
          frame |-> [sample_rate |-> buf[1].sample_rate, data |-> CombinedData(buf)]]

\* isinstance(e, (APIConnectionError, APIStatusError, APITimeoutError)), by
\* the base classes of exceptions.py
APIErrorClasses ==
    {"YandexAuthenticationError", "YandexNetworkError", "YandexAPIError", "YandexTimeoutError"}

Surfaced_passthrough(class) == class

\* the except clause of _recognize_impl: the class of the exception it raises
Surfaced(class) == IF class \in APIErrorClasses THEN class ELSE "APIConnectionError"

RaisedResult(class) ==
    [kind |-> "exception", type |-> Surfaced(class), text |-> << >>, idx |-> 0, cause |-> class]

\* the event the stream yielded at position i
EventResult(e, i) ==
    [kind |-> "event", type |-> e.type,
     text |-> IF e.alternatives = << >> THEN << >> ELSE e.alternatives[1],
     idx |-> i, cause |-> "none"]

\* the FINAL_TRANSCRIPT with empty text returned when there was no final
EmptyFinal ==
    [kind |-> "event", type |-> "FINAL_TRANSCRIPT", text |-> << >>, idx |-> 0, cause |-> "none"]

\* the stream _recognize_impl works on exists
BatchStream == recPc # "none"

\* _recognize_impl up to its loop: the stream is created, the combined frame
\* pushed and flushed, or combine_audio_frames raises
recognize_impl(buf) ==
    /\ recPc = "none"
    /\ LET combined == combine_audio_frames(buf)
       IN  IF combined.raised
           THEN /\ recPc' = "raised"
                /\ rec_result' = RaisedResult("ValueError")
                /\ UNCHANGED <<input_ch, pushed>>
           ELSE /\ recPc' = "iterating"
                /\ rec_result' = rec_result
                /\ pushed' = pushed + 1
                /\ input_ch' = input_ch \o <<FrameItem(combined.frame, pushed + 1),
                                              [FlushItem EXCEPT !.id = pushed + 1]>>
    /\ UNCHANGED <<cfgVars, rec_next, sample_rate, input_closed, closed, mainVars, iterVars,
                   respVars, closeVars>>

recognize_next_event_last ==
    /\ recPc = "iterating"
    /\ rec_next <= Len(event_ch)
    /\ LET e == event_ch[rec_next]
       IN  /\ rec_result' = IF e.type = "FINAL_TRANSCRIPT" THEN EventResult(e, rec_next)
                             ELSE rec_result
           /\ rec_next' = rec_next + 1
           /\ recPc' = recPc
    /\ UNCHANGED <<cfgVars, sample_rate, callerVars, closed, mainVars, iterVars, respVars,
                   closeVars>>

\* async for event in stream: the next event; a FINAL_TRANSCRIPT is kept and
\* ends the loop
recognize_next_event ==
    /\ recPc = "iterating"
    /\ rec_next <= Len(event_ch)
    /\ LET e == event_ch[rec_next]
       IN  IF e.type = "FINAL_TRANSCRIPT"
           THEN /\ rec_result' = EventResult(e, rec_next)
                /\ recPc' = "closing"
                /\ rec_next' = rec_next
           ELSE /\ rec_next' = rec_next + 1
                /\ UNCHANGED <<recPc, rec_result>>
    /\ UNCHANGED <<cfgVars, sample_rate, callerVars, closed, mainVars, iterVars, respVars,
                   closeVars>>

\* async for event in stream, with the output queue closed and read to its
\* end: the iteration raises what the task raised, or it ends
recognize_end_of_events ==
    /\ recPc = "iterating"
    /\ rec_next > Len(event_ch)
    /\ EventChClosed
    /\ IF mainPc = "failed"
       THEN recPc' = "raised" /\ rec_result' = RaisedResult(error.class)
       ELSE recPc' = "closing" /\ rec_result' = rec_result
    /\ UNCHANGED <<cfgVars, rec_next, sample_rate, callerVars, closed, mainVars, iterVars,
                   respVars, closeVars>>

\* await stream.aclose()
recognize_aclose ==
    /\ recPc = "closing"
    /\ aclose_calls = 0
    /\ aclose

\* the return of _recognize_impl: the final event kept, or the empty final
recognize_return ==
    /\ recPc = "closing"
    /\ aclose_calls >= 1
    /\ recPc' = "returned"
    /\ rec_result' = IF rec_result.kind = "event" THEN rec_result ELSE EmptyFinal
    /\ UNCHANGED <<cfgVars, rec_next, sample_rate, callerVars, closed, mainVars, iterVars,
                   respVars, closeVars>>

\* the caller's side and the request iterator: what goes out to the backend
\* (responses touch only respLog and event_ch, which nothing here reads)
NextOut ==
    \/ \E f \in Frames : push_frame(f)
    \/ flush
    \/ aclose
    \/ create_grpc_connection
    \/ create_grpc_connection_fails
    \/ start_streaming_session
    \/ stream_ends
    \/ \E e \in OutFailures : stream_fails(e)
    \/ iter_yield_session_request
    \/ iter_session_started
    \/ iter_loop_test
    \/ iter_recv_empty
    \/ iter_recv

\* the response loop: what comes in from the backend (the request iterator
\* and the caller's audio touch neither respLog nor event_ch)
NextIn ==
    \/ aclose
    \/ create_grpc_connection
    \/ create_grpc_connection_fails
    \/ start_streaming_session
    \/ \E r \in Responses : receive_response(r)
    \/ stream_ends
    \/ \E e \in OutFailures : stream_fails(e)

Next == NextOut \/ NextIn

Spec == Init /\ [][Next]_vars

SpecOut == Init /\ [][NextOut]_vars

\* a session at the default sample rate, seen from the response loop
InitIn == Init /\ sample_rate = ExpectedRate

SpecIn == InitIn /\ [][NextIn]_vars

\* failures and closing: a session at the default sample rate fed with frames
\* the converter accepts, whose calls end in every way a call can end
NextFail ==
    \/ \E f \in AcceptedFrames : push_frame(f)
    \/ flush
    \/ aclose
    \/ create_grpc_connection
    \/ create_grpc_connection_fails
    \/ start_streaming_session
    \/ stream_ends
    \/ \E e \in GrpcFailures : stream_fails(e)
    \/ iter_yield_session_request
    \/ iter_session_started
    \/ iter_loop_test
    \/ iter_recv_empty
    \/ iter_recv

SpecFail == InitIn /\ [][NextFail]_vars

\* the steps of the main task, the end of a started call among them
MainStep ==
    \/ create_grpc_connection
    \/ create_grpc_connection_fails
    \/ start_streaming_session
    \/ stream_ends
    \/ \E e \in GrpcFailures : stream_fails(e)

\* the steps of the request iterator
IterStep ==
    \/ iter_yield_session_request
    \/ iter_session_started
    \/ iter_loop_test
    \/ iter_recv_empty
    \/ iter_recv

\* fair scheduling: the event loop keeps running the main task and the
\* request iterator, and every started call ends
SpecLive == SpecFail /\ WF_vars(MainStep) /\ WF_vars(IterStep)

\* both directions of one call: accepted frames and a flush go out while
\* transcripts come in
NextDuplex ==
    \/ \E f \in AcceptedFrames : push_frame(f)
    \/ flush
    \/ aclose
    \/ create_grpc_connection
    \/ create_grpc_connection_fails
    \/ start_streaming_session
    \/ \E r \in TranscriptResponses : receive_response(r)
    \/ stream_ends
    \/ \E e \in OutFailures : stream_fails(e)
    \/ iter_yield_session_request
    \/ iter_session_started
    \/ iter_loop_test
    \/ iter_recv_empty
    \/ iter_recv

SpecDuplex == InitIn /\ [][NextDuplex]_vars

\* responses whose processing can be cut short: up to MaxAlts events each
ProcResponses ==
    {r \in Responses : r.variant \in {"partial", "eou_update"}}
    \cup {[variant |-> "final", alts |-> a, code |-> 0] : a \in PartialAltLists}

\* the response loop with responses whose processing fails
NextProc ==
    \/ create_grpc_connection
    \/ start_streaming_session
    \/ \E r \in ProcResponses : receive_response(r)
    \/ \E r \in ProcResponses : \E k \in 0..(MaxAlts - 1) : receive_response_raises(r, k)
    \/ stream_ends
    \/ \E e \in OutFailures : stream_fails(e)

SpecProc == InitIn /\ [][NextProc]_vars

\* the stream of a batch recognition: its task and its request iterator
BatchStreamStep ==
    \/ create_grpc_connection
    \/ create_grpc_connection_fails
    \/ start_streaming_session
    \/ \E r \in TranscriptResponses : receive_response(r)
    \/ stream_ends
    \/ \E e \in GrpcFailures : stream_fails(e)
    \/ iter_yield_session_request
    \/ iter_session_started
    \/ iter_loop_test
    \/ iter_recv_empty
    \/ iter_recv

NextBatch ==
    \/ \E buf \in Buffers : recognize_impl(buf)
    \/ recognize_next_event
    \/ recognize_end_of_events
    \/ recognize_aclose
    \/ recognize_return
    \/ BatchStream /\ BatchStreamStep

\* one call of STT._recognize_impl on an STT of the default sample rate
SpecBatch == InitIn /\ [][NextBatch]_vars


\* ================================================================ claims
RECURSIVE Flatten(_)
Flatten(ss) == IF ss = << >> THEN << >> ELSE Head(ss) \o Flatten(Tail(ss))

\* the audio chunk messages yielded so far, over all streaming calls
SentChunks == SelectSeq(Flatten(requests), LAMBDA m : m.kind = "chunk")

ChunksOf(id) == {k \in DOMAIN SentChunks : SentChunks[k].frame = id}

EventsOf(i) == {k \in DOMAIN event_ch : event_ch[k].src = i}

Blank(t) == \A k \in DOMAIN t : t[k] \in Whitespace

\* C1: in every streaming call the request sequence starts with the one
\* session_options message: a message is the configuration message exactly
\* when it is the first of its call, whatever the caller pushes, flushes or
\* closes.
C1_ConfigFirstOnce ==
    \A i \in DOMAIN requests : \A k \in DOMAIN requests[i] :
        (requests[i][k].kind = "session_options") <=> (k = 1)

C1_Witness ==
    /\ closed
    /\ \E i \in DOMAIN requests :
          /\ Len(requests[i]) >= 3
          /\ requests[i][2].kind = "chunk"
    /\ \E k \in DOMAIN taken : IsFlushSentinel(taken[k])

\* C2: the chunks go out in push order and no frame goes out twice: frame
\* ids number the pushes, and along the chunks sent they strictly increase.
C2_PushOrder ==
    \A j, k \in DOMAIN SentChunks : j < k => SentChunks[j].frame < SentChunks[k].frame

C2_Witness ==
    /\ Len(SentChunks) >= 2
    /\ pushed >= 2

\* C3: with an allowed configured rate, a received frame with non-empty data
\* is forwarded as exactly one chunk when its rate is the configured rate and
\* as no chunk when it is another rate.
C3_ForwardIffConfiguredRate ==
    sample_rate \in AllowedRates =>
        \A k \in DOMAIN taken :
            (taken[k].kind = "frame" /\ taken[k].data # << >>) =>
                Cardinality(ChunksOf(taken[k].id)) =
                    (IF taken[k].sample_rate = sample_rate THEN 1 ELSE 0)

FirstFrameMismatched ==
    /\ taken = << >>
    /\ taken' # << >>
    /\ taken'[1].kind = "frame"
    /\ taken'[1].sample_rate # sample_rate

LaterFrameFailsConversion ==
    /\ taken # << >>
    /\ Len(taken') = Len(taken) + 1
    /\ taken'[Len(taken')].kind = "frame"
    /\ convert_audio_frame_to_pcm(taken'[Len(taken')]).raised

Convertible(item) ==
    /\ item.kind = "frame"
    /\ item.sample_rate = ExpectedRate
    /\ item.data # << >>

\* C5: a frame after the first whose conversion fails is skipped and the
\* session goes on: the step sends nothing, leaves the closed flag, the call,
\* the main task and the error as they were and returns the iterator to its
\* loop; and every frame the converter accepts is forwarded as a chunk when
\* it is received, whatever was skipped before it.
C5_SkipAndContinue ==
    /\ [][LaterFrameFailsConversion =>
            /\ requests' = requests
            /\ closed' = closed
            /\ stream_call' = stream_call
            /\ mainPc' = mainPc
            /\ error' = error
            /\ iterPc' = "top"]_vars
    /\ [](\A k \in DOMAIN taken : Convertible(taken[k]) => ChunksOf(taken[k].id) # {})

C5_Witness ==
    /\ Len(taken) >= 3
    /\ Convertible(taken[1])
    /\ taken[2].kind = "frame"
    /\ convert_audio_frame_to_pcm(taken[2]).raised
    /\ Convertible(taken[3])
    /\ Len(SentChunks) = 2
    /\ stream_call = "active"

\* C6: no FINAL_TRANSCRIPT event on the output queue has a text that is
\* empty or made of whitespace only.
C6_NoBlankFinal ==
    \A k \in DOMAIN event_ch :
        event_ch[k].type = "FINAL_TRANSCRIPT" =>
            \A a \in DOMAIN event_ch[k].alternatives : ~Blank(event_ch[k].alternatives[a])

C6_Witness ==
    /\ \E i \in DOMAIN respLog :
          /\ respLog[i].variant = "final"
          /\ \E a \in DOMAIN respLog[i].alts : Blank(respLog[i].alts[a])
          /\ \E a \in DOMAIN respLog[i].alts : ~Blank(respLog[i].alts[a])
          /\ Cardinality(EventsOf(i)) = 1
    /\ \E k \in DOMAIN event_ch : event_ch[k].type = "FINAL_TRANSCRIPT"

\* C7: every eou_update response received has exactly one event on the
\* output queue, an END_OF_SPEECH event without alternatives.
C7_EndOfSpeechQueued ==
    \A i \in DOMAIN respLog :
        respLog[i].variant = "eou_update" =>
            /\ Cardinality(EventsOf(i)) = 1
            /\ \A k \in EventsOf(i) :
                  /\ event_ch[k].type = "END_OF_SPEECH"
                  /\ event_ch[k].alternatives = << >>

C9_EventOrder ==
    \A j, k \in DOMAIN event_ch :
        event_ch[j].src < event_ch[k].src => j < k

C9_Witness ==
    \E j, k \in DOMAIN event_ch : event_ch[j].src < event_ch[k].src

\* C10: a streaming call that fails with a condition classified as
\* YandexNetworkError is followed by a new attempt while fewer than the three
\* attempts were made, so the network error ends the main task only once the
\* budget is spent; and each attempt yields one configuration message at most.
C10_RetryOnNetworkError ==
    /\ (mainPc = "failed" /\ error.class = "YandexNetworkError") =>
          attempts >= StopAfterAttempt
    /\ \A i \in DOMAIN requests :
          Cardinality({k \in DOMAIN requests[i] : requests[i][k].kind = "session_options"}) <= 1

\* ------------------------------------------------- failures and retries
\* the exception that ended the latest failed streaming call
LastFailure == failures[Len(failures)]

\* the main task ended with the error of a failed streaming call
FailedAfterCall == mainPc = "failed" /\ failures # << >>

C12_RetryableIsRetried ==
    (/\ FailedAfterCall
     /\ LastFailure.type = "RpcError"
     /\ handle_grpc_error(LastFailure).retryable) =>
        attempts >= StopAfterAttempt

\* C13: a call that fails with a non-retryable condition (UNAUTHENTICATED or
\* INVALID_ARGUMENT) is the last call of the session: no further streaming
\* call is started, the main task ends, and its error is the classified one
\* (YandexAuthenticationError, or YandexAPIError with retryable false).
C13_NoReconnectAfterNonRetryable ==
    \A i \in DOMAIN failures :
        (failures[i].type = "RpcError" /\ ~handle_grpc_error(failures[i]).retryable) =>
            /\ i = Len(failures)
            /\ attempts = i
            /\ Len(requests) = i
            /\ stream_call = "failed"
            /\ mainPc = "failed"
            /\ error = handle_grpc_error(failures[i])
            /\ error.class \in {"YandexAuthenticationError", "YandexAPIError"}
            /\ ~error.retryable

C13_Witness ==
    /\ FailedAfterCall
    /\ LastFailure.code \in {"UNAUTHENTICATED", "INVALID_ARGUMENT"}
    /\ SentChunks # << >>
    /\ input_ch # << >>

\* the classification table of the specification
C14_Table(e) ==
    CASE e.code = "UNAUTHENTICATED" -> [class |-> "YandexAuthenticationError", retryable |-> FALSE]
      [] e.code = "UNAVAILABLE" -> [class |-> "YandexNetworkError", retryable |-> TRUE]
      [] e.code = "INTERNAL" /\ e.rst -> [class |-> "YandexNetworkError", retryable |-> TRUE]
      [] e.code = "DEADLINE_EXCEEDED" -> [class |-> "YandexTimeoutError", retryable |-> TRUE]
      [] e.code = "INVALID_ARGUMENT" -> [class |-> "YandexAPIError", retryable |-> FALSE]
      [] e.code = "RESOURCE_EXHAUSTED" -> [class |-> "YandexAPIError", retryable |-> TRUE]
      [] OTHER -> [class |-> "YandexAPIError", retryable |-> TRUE]

C15_AcloseIdempotent ==
    [][(aclose_calls >= 1 /\ aclose_calls' = aclose_calls + 1) =>
          UNCHANGED <<cfgVars, recVars, sample_rate, callerVars, closed, mainVars, iterVars, respVars,
                      channel_closes>>]_vars

C15_Witness ==
    /\ aclose_calls = 2
    /\ grpc_channel = "closed"
    /\ channel_closes = 1
    /\ mainPc = "cancelled"

\* C16: once a call of aclose() has returned, the close of every channel the
\* session opened has been invoked, whatever state aclose() was called in.
C16_AcloseClosesChannel ==
    (aclose_calls >= 1 /\ grpc_channel # "none") =>
        (channel_closes >= 1 /\ grpc_channel = "closed")

\* C17: once aclose() has marked the session closed (and with it cancelled
\* the call and closed the input), the request iterator produces no further
\* message, also when a frame waits in the input queue while the iterator is
\* in its poll.
C17_NoChunkAfterAclose ==
    [][(closed /\ input_closed) => requests' = requests]_vars

C17_Witness ==
    /\ aclose_calls >= 1
    /\ input_closed
    /\ stream_call = "cancelled"
    /\ iterPc = "poll"
    /\ input_ch # << >>
    /\ Convertible(input_ch[1])

\* ------------------------------------------------------------ flushing
\* the request iterator has met the flush sentinel and ended
HalfClosed == \E k \in DOMAIN taken : IsFlushSentinel(taken[k])

\* C18: when the request iterator ends on the flush sentinel, every frame
\* pushed before flush() was received before the sentinel, and each of them
\* the converter accepts has its chunk among the messages sent.
C18_FlushOrdering ==
    \A k \in DOMAIN taken :
        IsFlushSentinel(taken[k]) =>
            /\ iterPc = "finished"
            /\ \A id \in 1..taken[k].id :
                  \E j \in 1..(k - 1) :
                      /\ taken[j].kind = "frame"
                      /\ taken[j].id = id
                      /\ Convertible(taken[j]) => ChunksOf(id) # {}

C18_Witness ==
    /\ HalfClosed
    /\ Len(SentChunks) >= 2
    /\ \E k \in DOMAIN taken : IsFlushSentinel(taken[k]) /\ taken[k].id >= 2
    /\ pushed > Len(SentChunks)

\* C19: once the request iterator has met the flush sentinel it produces no
\* further message, whatever is pushed afterwards; meeting the sentinel leaves
\* the call and the response loop as they were; and every response received
\* after that is decoded and its events are appended to the output queue.
C19_HalfClose ==
    /\ [][HalfClosed => requests' = requests]_vars
    /\ [][(~HalfClosed /\ HalfClosed') =>
            UNCHANGED <<stream_call, mainPc, closed, respVars>>]_vars
    /\ [][(HalfClosed /\ respLog' # respLog) =>
            /\ Len(respLog') = Len(respLog) + 1
            /\ event_ch' = event_ch \o ResponseEvents(respLog'[Len(respLog')], Len(respLog'))]_vars

C19_Witness ==
    /\ HalfClosed
    /\ stream_call = "active"
    /\ \E i \in DOMAIN input_ch : Convertible(input_ch[i])
    /\ \E i \in DOMAIN respLog : i > half_closed_at /\ EventsOf(i) # {}

\* the transcript event of a response that carries one transcript
TranscriptEvent(i) ==
    SpeechEvent(IF respLog[i].variant = "partial" THEN "INTERIM_TRANSCRIPT"
                ELSE "FINAL_TRANSCRIPT",
                respLog[i].alts, i)

\* frames were pushed and flushed, the backend sent interim and non-blank
\* final transcripts and then ended the stream
C20_Scenario ==
    /\ HalfClosed
    /\ \A k \in DOMAIN taken : taken[k].kind = "frame" => Convertible(taken[k])
    /\ stream_call = "ended"
    /\ \A i \in DOMAIN respLog :
          /\ respLog[i] \in TranscriptResponses
          /\ ~Blank(respLog[i].alts[1])

\* C20: in that scenario the output queue holds exactly the transcripts the
\* backend sent, one event each, in the backend's order, and the queue is
\* closed.
C20_TranscriptsThenClose ==
    C20_Scenario =>
        /\ event_ch = [i \in 1..Len(respLog) |-> TranscriptEvent(i)]
        /\ EventChClosed

C20_Witness ==
    /\ C20_Scenario
    /\ Len(SentChunks) >= 2
    /\ Len(respLog) >= 2
    /\ respLog[1].variant = "partial"
    /\ respLog[Len(respLog)].variant = "final"
    /\ Len(event_ch) = Len(respLog)

\* ---------------------------------------------------------- termination
\* the main task has ended: with an error, by returning, or cancelled
MainTerminated == mainPc \in {"done", "failed", "cancelled"}

\* the request iterator is not waiting: it was never created, it has ended,
\* the transport stopped iterating it, or it was cancelled with its call
IterTerminated ==
    \/ iterPc \in {"none", "finished", "abandoned"}
    \/ stream_call = "cancelled"

\* C21: under fair scheduling, every started call ending, the session comes
\* to rest: the main task has ended, with an error when it failed, the
\* request iterator is no longer waiting, and it stays so.
C21_Terminates ==
    <>[](/\ MainTerminated
         /\ mainPc = "failed" => error # NoError
         /\ IterTerminated)

C21_Witness ==
    /\ mainPc = "done"
    /\ iterPc = "finished"
    /\ ~input_closed
    /\ ~HalfClosed
    /\ Len(SentChunks) >= 1

\* ------------------------------------------------------- configuration
\* language and detect_language are not both set in the options
NotBothSet(opts) == ~(opts.detect_language /\ opts.language # None)

\* C22: the options an STT keeps and the options of every stream it creates
\* never have a language together with detect_language; detect_language
\* implies language None, and a stream created with a language has that
\* language and detect_language false.
C22_LanguageXorDetect ==
    /\ stt_obj.raised = "none" => NotBothSet(stt_obj.opts)
    /\ stream_opts # NoStream =>
          /\ NotBothSet(stream_opts.opts)
          /\ stream_opts.opts.detect_language => stream_opts.opts.language = None
          /\ stream_opts.language # NOT_GIVEN =>
                /\ stream_opts.opts.language = stream_opts.language
                /\ ~stream_opts.opts.detect_language

C22_Witness ==
    /\ stt_obj.raised = "none"
    /\ stt_obj.args.detect_language
    /\ stt_obj.opts.language = None
    /\ stream_opts.language = "en-US"
    /\ stream_opts.opts.language = "en-US"

\* C25: STT construction raises YandexAudioFormatError for a sample rate
\* outside 8000, 16000, 48000; with an allowed rate, YandexConfigurationError
\* for a missing or empty folder_id and, the folder_id present,
\* YandexAuthenticationError for a missing or empty api_key; a construction
\* that raised keeps no options and gives no stream; and every stream has
\* both credentials non-empty and an allowed sample rate.
C25_ConstructionPreconditions ==
    stt_obj.raised # "unconstructed" =>
        LET a == stt_obj.args
            c == Credentials(a)
            rateOk == a.sample_rate \in AllowedRates
        IN  /\ ~rateOk => stt_obj.raised = "YandexAudioFormatError"
            /\ (rateOk /\ ~Truthy(c.folder_id)) => stt_obj.raised = "YandexConfigurationError"
            /\ (rateOk /\ Truthy(c.folder_id) /\ ~Truthy(c.api_key)) =>
                  stt_obj.raised = "YandexAuthenticationError"
            /\ stt_obj.raised # "none" => (stt_obj.opts = NoOpts /\ stream_opts = NoStream)
            /\ stream_opts # NoStream =>
                  /\ Truthy(stt_obj.credentials.api_key)
                  /\ Truthy(stt_obj.credentials.folder_id)
                  /\ Truthy(stream_opts.opts.folder_id)
                  /\ stream_opts.opts.sample_rate \in AllowedRates
                  /\ sample_rate = stream_opts.opts.sample_rate

C25_Witness ==
    /\ stt_obj.raised = "YandexAuthenticationError"
    /\ stt_obj.args.folder_id = "folder"
    /\ stt_obj.args.api_key = ""
    /\ stt_obj.args.env_api_key = "envkey"

\* ------------------------------------------------------ terminal errors
\* C23: whenever the main task has ended with an error, whatever raised it,
\* the session's closed flag is set.
C23_ErrorForcesClosed ==
    mainPc = "failed" => closed

\* the main task ended because the connection could not be created
ConnectionFailed == mainPc = "failed" /\ grpc_channel = "none" /\ attempts = 0

\* C24: when creating the channel and stub fails, the error that leaves the
\* main task is a YandexNetworkError, retryable.
C24_ConnectFailureIsNetworkError ==
    ConnectionFailed => error = [class |-> "YandexNetworkError", retryable |-> TRUE]

\* -------------------------------------------------------------- chunks
\* C26: every chunk message the request iterator produced carries at least
\* one byte; a frame with no data has no chunk; and the chunks are as many as
\* the received frames that convert to bytes, so the flush sentinel, like
\* every other received item, produced none.
C26_NoEmptyChunk ==
    /\ \A k \in DOMAIN SentChunks : Len(SentChunks[k].data) >= 1
    /\ \A k \in DOMAIN taken :
          (taken[k].kind = "frame" /\ taken[k].data = << >>) => ChunksOf(taken[k].id) = {}
    /\ Len(SentChunks) = Cardinality({k \in DOMAIN taken : Convertible(taken[k])})

C26_Witness ==
    /\ \E k \in DOMAIN taken :
          /\ taken[k].kind = "frame"
          /\ taken[k].sample_rate = ExpectedRate
          /\ taken[k].data = << >>
    /\ HalfClosed
    /\ Len(SentChunks) >= 1

\* C29: over the whole session, all streaming calls together, a pushed frame
\* is received from the input queue at most once and sent as a chunk at most
\* once.
C29_AtMostOnce ==
    /\ \A id \in 1..pushed : Cardinality(ChunksOf(id)) <= 1
    /\ \A j, k \in DOMAIN taken :
          (taken[j].kind = "frame" /\ taken[k].kind = "frame" /\ taken[j].id = taken[k].id)
              => j = k

C29_Witness ==
    /\ Len(SentChunks) = 3
    /\ pushed = 3
    /\ closed

IsTranscript(r) == r.variant \in {"partial", "final"}

\* C27: a partial or final response puts at most one event on the output
\* queue, and that event carries the first alternative of the response.
C27_OneEventPerResponse ==
    \A i \in DOMAIN respLog :
        IsTranscript(respLog[i]) =>
            /\ Cardinality(EventsOf(i)) <= 1
            /\ \A k \in EventsOf(i) : event_ch[k].alternatives = <<respLog[i].alts[1]>>

\* variants _process_response has no branch for and the parser does not know
UnrecognizedVariants == {"none", "classifier_update"}

\* C28: receiving a response of an unrecognized variant, or with no variant,
\* queues no event, raises nothing and leaves the response loop running; no
\* event on the queue comes from such a response, and a partial transcript
\* has its event whatever was received before it.
C28_UnrecognizedIsNoOp ==
    /\ [][(Len(respLog') = Len(respLog) + 1
            /\ respLog'[Len(respLog')].variant \in UnrecognizedVariants) =>
              /\ event_ch' = event_ch
              /\ UNCHANGED <<mainPc, stream_call, error, closed>>]_vars
    /\ [](\A i \in DOMAIN respLog :
            respLog[i].variant \in UnrecognizedVariants => EventsOf(i) = {})
    /\ [](\A i \in DOMAIN respLog :
            (respLog[i].variant = "partial" /\ respLog[i].alts # << >>) => EventsOf(i) # {})

C28_Witness ==
    /\ Len(respLog) >= 2
    /\ respLog[1].variant = "classifier_update"
    /\ EventsOf(1) = {}
    /\ EventsOf(2) # {}
    /\ stream_call = "active"
    /\ error = NoError

\* ------------------------------------------------------ closed is terminal
\* C31: the closed flag, once true, stays true, and from then on the request
\* iterator yields no further audio chunk.
C31_ClosedIsTerminal ==
    [][closed => (closed' /\ SentChunks' = SentChunks)]_vars

\* C32: the iterator enters its wait for a frame only while the session is
\* not closed, so that a close is met by at most one more timeout; and once
\* the session is closed with the input queue empty from then on, the request
\* iterator terminates.
C32_CloseObserved ==
    /\ [][(iterPc # "poll" /\ iterPc' = "poll") => ~closed]_vars
    /\ [](closed /\ [](input_ch = << >>) => <>IterTerminated)

C32_Witness ==
    /\ closed
    /\ stream_call = "ended"
    /\ iterPc = "finished"
    /\ pushed = 0
    /\ input_ch = << >>
    /\ ~input_closed

\* ------------------------------------------------- the two directions
\* the request iterator waits for a frame and none is queued
WaitingForFrame == iterPc = "poll" /\ input_ch = << >>

\* C33: while the call is live, a response can be taken and its events queued
\* also when the request iterator waits for a frame with none queued, and a
\* queued frame can be taken by the waiting iterator whatever the responses
\* received so far; a step of one direction leaves the other's state alone.
C33_NoMutualBlocking ==
    /\ [](/\ stream_call = "active"
           /\ Len(respLog) < MaxResponses
           /\ WaitingForFrame
           => \A r \in TranscriptResponses : ENABLED receive_response(r))
    /\ [](/\ stream_call = "active"
           /\ iterPc = "poll"
           /\ input_ch # << >>
           => ENABLED iter_recv)
    /\ [][respLog' # respLog =>
            /\ event_ch' = event_ch \o ResponseEvents(respLog'[Len(respLog')], Len(respLog'))
            /\ iterVars' = iterVars
            /\ input_ch' = input_ch]_vars
    /\ [][requests' # requests => respVars' = respVars]_vars

C33_Witness ==
    /\ stream_call = "active"
    /\ WaitingForFrame
    /\ pushed = 0
    /\ Len(respLog) >= 1
    /\ Len(event_ch) >= 1

\* ------------------------------------------------ the configuration message
\* C34: the configuration message of a stream differs from that of a stream
\* whose options differ in the model identifier only.
C34_ModelInConfig ==
    stream_opts.opts # NoOpts =>
        \A m \in ModelArgs \ {stream_opts.opts.model} :
            create_streaming_options([stream_opts.opts EXCEPT !.model = m])
                # create_streaming_options(stream_opts.opts)

\* ------------------------------------------------------ batch recognition
\* the first FINAL_TRANSCRIPT of the output queue is at position i
FirstFinalAt(i) ==
    /\ i \in DOMAIN event_ch
    /\ event_ch[i].type = "FINAL_TRANSCRIPT"
    /\ \A k \in 1..(i - 1) : event_ch[k].type # "FINAL_TRANSCRIPT"

C36_BatchStreamClosed ==
    recPc \in {"returned", "raised"} => aclose_calls >= 1

\* ------------------------------------------- failures of _process_response
\* the events of response i that reached the output queue
QueuedOf(i) == SelectSeq(event_ch, LAMBDA e : e.src = i)

\* C37: an exception inside _process_response leaves the main task, the call,
\* the closed flag and the error as they were; of the failed response a prefix
\* of its events is queued and the rest is dropped; and the response loop
\* can take the next response.
C37_ProcessErrorContained ==
    /\ [][process_errors' > process_errors =>
            /\ mainPc' = "receiving"
            /\ stream_call' = "active"
            /\ closed' = closed
            /\ error' = NoError
            /\ \E k \in 0..Len(ResponseEvents(respLog'[Len(respLog')], Len(respLog'))) :
                   event_ch' = event_ch \o
                       SubSeq(ResponseEvents(respLog'[Len(respLog')], Len(respLog')), 1, k)]_vars
    /\ [](/\ process_errors >= 1
           /\ stream_call = "active"
           /\ Len(respLog) < MaxResponses
           => \A r \in ProcResponses : ENABLED receive_response(r))

C37_Witness ==
    /\ process_errors = 1
    /\ Len(respLog) = 2
    /\ Len(ResponseEvents(respLog[1], 1)) = 2
    /\ Len(QueuedOf(1)) = 1
    /\ QueuedOf(2) = ResponseEvents(respLog[2], 2)
    /\ QueuedOf(2) # << >>
    /\ mainPc = "receiving"

\* ------------------------------------------------ nothing opens after aclose
\* aclose() has marked the session closed (it is what closes the input)
MarkedByAclose == closed /\ input_closed

\* C38: once aclose() has marked the session closed, no step opens a channel
\* or starts a streaming call, also when aclose() came before the main task
\* reached the connection setup.
C38_NothingOpensAfterAclose ==
    [][MarkedByAclose =>
        /\ (grpc_channel' = "open" => grpc_channel = "open")
        /\ (stream_call' = "active" => stream_call = "active")
        /\ attempts' = attempts
        /\ Len(requests') = Len(requests)]_vars

C38_Witness ==
    /\ MarkedByAclose
    /\ mainPc = "cancelled"
    /\ grpc_channel = "none"
    /\ stream_call = "none"
    /\ attempts = 0

\* ------------------------------------------------------- final refinement
\* C39: a final_refinement response is parsed as final, with its normalized
\* alternatives, and no event is queued for it; every queued event comes from
\* a partial or a final response.
C39_RefinementNotQueued ==
    /\ \A i \in DOMAIN respLog :
           respLog[i].variant = "final_refinement" =>
               /\ parse_streaming_response(respLog[i]).is_final
               /\ parse_streaming_response(respLog[i]).alternatives = respLog[i].alts
               /\ parse_streaming_response(respLog[i]).event_type = "final_refinement"
               /\ EventsOf(i) = {}
    /\ \A k \in DOMAIN event_ch :
           /\ respLog[event_ch[k].src].variant \in {"partial", "final"}
           /\ event_ch[k].type \in {"INTERIM_TRANSCRIPT", "FINAL_TRANSCRIPT"}

C39_Witness ==
    /\ Len(respLog) = 2
    /\ respLog[1].variant = "final_refinement"
    /\ respLog[1].alts # << >>
    /\ respLog[2].variant = "final"
    /\ EventsOf(2) # {}
    /\ stream_call = "active"

====
